---- MODULE Spec2Model ----
(***************************************************************************)
(* Model of micromovies2:                                                  *)
(*   - vault/cmd/server.go: main, the lifecycle coordinator that builds    *)
(*     the decorated service, launches the signal watcher, the HTTP        *)
(*     listener and the gRPC listener as goroutines and exits on the first *)
(*     value received from errChan;                                        *)
(*   - apigateway/http_server.go: Endpoints.HandleLoginPost with           *)
(*     respondError and respondSuccess.                                    *)
(***************************************************************************)
EXTENDS Integers, Sequences, FiniteSets, TLC

\* ------------------------------------------------------------------ bounds
\* gRPC calls made to the vault server in one execution of Spec
MaxLifeCalls == 1
\* gRPC calls made to the vault server in one execution of SpecServe
MaxCalls == 2
\* HandleLoginPost invocations in one execution of the api gateway
MaxLogin == 2

\* --------------------------------------------------------------- constants
\* capacity of the os.Signal channel c
SigChanCap == 1
\* the status both respondError calls of HandleLoginPost pass
ErrorCode == 500
\* net/http: the status of a response whose header was never written explicitly
StatusOK == 200

Tasks == {"signal", "http", "rpc"}
Ops == {"Hash", "Validate"}
Signals == {"interrupt", "terminated"}
CallIds == 1..MaxCalls
LoginIds == 1..MaxLogin

VARIABLES
    mainPc,        \* where the main goroutine is
    exitHow,       \* how the process ended: "none", "fatal", "panic", "signal"
    svc,           \* the composed service: its layers, outermost first
    endpoints,     \* op -> the service chain the endpoint was made from (<<>>: not built)
    pc,            \* per task: where its goroutine is
    launched,      \* per task: how many times a goroutine was started for it
    bindCalls,     \* per listener task: the outcome of each bind it tried
    offered,       \* per task: how many sends on errChan it started
    sigRegistered, \* signal.Notify has been called
    sigBuf,        \* channel c of the signal watcher
    sendq,         \* errChan: the senders blocked on it, first come first
    received,      \* the values main received from errChan
    httpRoutes,    \* the routes of the router the HTTP task serves
    rpcHandlers,   \* the operations registered with the gRPC server
    httpLast,      \* the status of the last HTTP response, <<>> before the first
    tracer,        \* [init, spanStarted, closed, spanFinished]
    deferred,      \* main's deferred calls, last registered first
    calls,         \* per gRPC call: its progress through the service chain
    requestCount,  \* <<method, error>> -> value of the request counter
    requestLatency,\* <<method, error>> -> observations in the latency summary
    logRecords,    \* records written by the logging decorator
    login          \* per HandleLoginPost invocation: its state

vars == <<mainPc, exitHow, svc, endpoints, pc, launched, bindCalls, offered,
          sigRegistered, sigBuf, sendq, received, httpRoutes,
          rpcHandlers, httpLast, tracer, deferred, calls, requestCount,
          requestLatency, logRecords, login>>

mainVars == <<mainPc, exitHow, svc, endpoints, pc, launched, bindCalls, offered,
              sigRegistered, sigBuf, sendq, received, httpRoutes,
              rpcHandlers, httpLast, tracer, deferred, calls, requestCount,
              requestLatency, logRecords>>

\* ------------------------------------------------------------- the service
\* vault.NewService()
NewService == <<"Capability">>

\* vault.LoggingMiddleware{logger, svc}
LoggingMiddleware(next) == <<"Logging">> \o next

\* vault.InstrumentingMiddleware{requestCount, requestLatency, countResult, svc}
InstrumentingMiddleware(next) == <<"Instrumenting">> \o next

NoCall == [st |-> "idle", op |-> "none", chain |-> <<>>, depth |-> 0,
           dir |-> "in", err |-> FALSE, trace |-> <<>>, counted |-> 0, observed |-> 0]

\* an http.ResponseWriter nothing was written to (status 0: no header sent yet)
NewResponseWriter == [status |-> 0, contentType |-> "", body |-> <<>>]

\* nil values are the empty tuple
NoLogin == [pc |-> "idle", body |-> <<>>, req |-> <<>>, err |-> <<>>,
            resp |-> <<>>, epCalls |-> 0, responses |-> <<>>,
            w |-> NewResponseWriter]

LabelSet == Ops \X BOOLEAN

Init ==
    /\ mainPc = "construct"
    /\ exitHow = "none"
    /\ svc = <<>>
    /\ endpoints = [o \in Ops |-> <<>>]
    /\ pc = [t \in Tasks |-> "unlaunched"]
    /\ launched = [t \in Tasks |-> 0]
    /\ bindCalls = [t \in {"http", "rpc"} |-> <<>>]
    /\ offered = [t \in Tasks |-> 0]
    /\ sigRegistered = FALSE
    /\ sigBuf = <<>>
    /\ sendq = <<>>
    /\ received = <<>>
    /\ httpRoutes = {}
    /\ rpcHandlers = {}
    /\ httpLast = <<>>
    /\ tracer = [init |-> FALSE, spanStarted |-> FALSE, closed |-> FALSE,
                 spanFinished |-> FALSE]
    /\ deferred = <<>>
    /\ calls = [c \in CallIds |-> NoCall]
    /\ requestCount = [l \in LabelSet |-> 0]
    /\ requestLatency = [l \in LabelSet |-> 0]
    /\ logRecords = 0
    /\ login = [i \in LoginIds |-> NoLogin]

lifeVars == <<mainPc, exitHow>>
svcVars == <<svc, endpoints>>
taskVars == <<pc, launched, bindCalls, offered>>
sigVars == <<sigRegistered, sigBuf>>
chanVars == <<sendq, received>>
bindVars == <<httpRoutes, rpcHandlers, httpLast>>
traceVars == <<tracer, deferred>>
metricVars == <<requestCount, requestLatency, logRecords>>

Alive == exitHow = "none"

Terminated == mainPc = "exited"

\* The process ends: every goroutine that has not finished is gone with it, and
\* so is every call in flight.
KillAll(how) ==
    /\ exitHow' = how
    /\ mainPc' = "exited"
    /\ pc' = [t \in Tasks |-> IF pc[t] \in {"unlaunched", "done"} THEN pc[t] ELSE "killed"]
    /\ calls' = [c \in CallIds |->
                   IF calls[c].st = "active" THEN [calls[c] EXCEPT !.st = "aborted"]
                   ELSE calls[c]]
    /\ sendq' = <<>>

\* the number of sends on errChan started so far; a send that starts is given
\* the next number, which records the order in which the tasks reached errChan
NOffers == offered["signal"] + offered["http"] + offered["rpc"]

\* errChan with a buffer: the send completes at once and the sender goes on
Offer_Buffered(t, val, next) ==
    /\ sendq' = Append(sendq, [task |-> t, val |-> val, next |-> next,
                               seq |-> NOffers + 1])
    /\ pc' = [pc EXCEPT ![t] = next]
    /\ offered' = [offered EXCEPT ![t] = @ + 1]

\* errChan <- val, executed by task t: errChan is unbuffered, so the sender
\* blocks in the channel's queue of senders until main receives from it.
Offer(t, val, next) ==
    /\ sendq' = Append(sendq, [task |-> t, val |-> val, next |-> next,
                               seq |-> NOffers + 1])
    /\ pc' = [pc EXCEPT ![t] = "send"]
    /\ offered' = [offered EXCEPT ![t] = @ + 1]

\* go func() { ... }()
Launch(t, first) ==
    /\ pc' = [pc EXCEPT ![t] = first]
    /\ launched' = [launched EXCEPT ![t] = @ + 1]

\* ------------------------------------------------------------------- main
\* the wrapping order reversed: Instrumenting innermost, Logging outermost
ComposeService_Swapped == LoggingMiddleware(InstrumentingMiddleware(NewService))

\* lines 65-67: svc after the three assignments
ComposeService == InstrumentingMiddleware(LoggingMiddleware(NewService))

\* lines 28-68: flags, logger, metrics, the composed service, errChan
MainConstruct ==
    /\ Alive /\ mainPc = "construct"
    /\ svc' = ComposeService
    /\ mainPc' = "goSignal"
    /\ UNCHANGED <<exitHow, endpoints, taskVars, sigVars, chanVars, bindVars,
                   traceVars, calls, metricVars, login>>

\* lines 70-74: the signal watcher is started
MainGoSignal ==
    /\ Alive /\ mainPc = "goSignal"
    /\ Launch("signal", "notify")
    /\ mainPc' = "endpoints"
    /\ UNCHANGED <<exitHow, svcVars, bindCalls, offered, sigVars, chanVars, bindVars,
                   traceVars, calls, metricVars, login>>

\* the endpoints made from the undecorated service
MakeEndpoints_Bare == [o \in Ops |-> NewService]

\* lines 75-80: MakeHashEndpoint(svc), MakeValidateEndpoint(svc)
MakeEndpoints == [o \in Ops |-> svc]

\* main goes from the endpoints straight to starting the listeners; the tracer
\* is not initialised before them
MainEndpoints_SkipTracer ==
    /\ Alive /\ mainPc = "endpoints"
    /\ endpoints' = MakeEndpoints
    /\ mainPc' = "goHTTP"
    /\ UNCHANGED <<exitHow, svc, taskVars, sigVars, chanVars, bindVars,
                   traceVars, calls, metricVars, login>>

\* lines 75-80: main builds the endpoints and goes on to the tracer
MainEndpoints ==
    /\ Alive /\ mainPc = "endpoints"
    /\ endpoints' = MakeEndpoints
    /\ mainPc' = "tracer"
    /\ UNCHANGED <<exitHow, svc, taskVars, sigVars, chanVars, bindVars,
                   traceVars, calls, metricVars, login>>

\* lines 82-86: the tracer is built, closer.Close and span.Finish are deferred
MainTracerOk ==
    /\ Alive /\ mainPc = "tracer"
    /\ tracer' = [tracer EXCEPT !.init = TRUE, !.spanStarted = TRUE]
    /\ deferred' = <<"span.Finish", "closer.Close">>
    /\ mainPc' = "goHTTP"
    /\ UNCHANGED <<exitHow, svcVars, taskVars, sigVars, chanVars, bindVars,
                   calls, metricVars, login>>

\* lines 83 and 86, defer: the calls main has deferred are run when main
\* returns or panics, the last deferred first
RunDeferred(tr, d) ==
    [tr EXCEPT !.spanFinished = @ \/ \E k \in 1..Len(d) : d[k] = "span.Finish",
               !.closed = @ \/ \E k \in 1..Len(d) : d[k] = "closer.Close"]

\* line 82 with initJaeger, lines 126-129: NewTracer fails and initJaeger
\* panics; the panic runs what main has deferred, which is nothing yet, and the
\* process ends
MainTracerPanic ==
    /\ Alive /\ mainPc = "tracer"
    /\ KillAll("panic")
    /\ tracer' = RunDeferred(tracer, deferred)
    /\ deferred' = <<>>
    /\ UNCHANGED <<svcVars, launched, bindCalls, offered, sigVars, received, bindVars,
                   metricVars, login>>

\* lines 88-94: the HTTP task is started
MainGoHTTP ==
    /\ Alive /\ mainPc = "goHTTP"
    /\ Launch("http", "router")
    /\ mainPc' = "goRPC"
    /\ UNCHANGED <<exitHow, svcVars, bindCalls, offered, sigVars, chanVars, bindVars,
                   traceVars, calls, metricVars, login>>

\* lines 96-108: the gRPC task is started
MainGoRPC ==
    /\ Alive /\ mainPc = "goRPC"
    /\ Launch("rpc", "listen")
    /\ mainPc' = "recv"
    /\ UNCHANGED <<exitHow, svcVars, bindCalls, offered, sigVars, chanVars, bindVars,
                   traceVars, calls, metricVars, login>>

\* a receive in a loop: main stays at the receive
AfterRecv_Loop == "recv"

\* line 111: what main does with the value it received: it logs it, once
AfterRecv == "fatal"

\* a receive that does not block: with no sender waiting main goes on with
\* no value
MainRecv_NoBlock ==
    /\ Alive /\ mainPc = "recv"
    /\ IF sendq # <<>>
       THEN /\ received' = Append(received, [task |-> Head(sendq).task,
                                             val |-> Head(sendq).val,
                                             seq |-> Head(sendq).seq,
                                             waiting |-> Len(sendq)])
            /\ sendq' = Tail(sendq)
            /\ pc' = [pc EXCEPT ![Head(sendq).task] = Head(sendq).next]
       ELSE UNCHANGED <<received, sendq, pc>>
    /\ mainPc' = AfterRecv
    /\ UNCHANGED <<exitHow, svcVars, launched, bindCalls, offered, sigVars, bindVars,
                   traceVars, calls, metricVars, login>>

\* the receive is given the sender that blocked last, not the one that
\* blocked first
MainRecv_Newest ==
    /\ Alive /\ mainPc = "recv"
    /\ sendq # <<>>
    /\ LET s == sendq[Len(sendq)]
       IN /\ received' = Append(received, [task |-> s.task, val |-> s.val,
                                           seq |-> s.seq, waiting |-> Len(sendq)])
          /\ sendq' = SubSeq(sendq, 1, Len(sendq) - 1)
          /\ pc' = [pc EXCEPT ![s.task] = s.next]
    /\ mainPc' = AfterRecv
    /\ UNCHANGED <<exitHow, svcVars, launched, bindCalls, offered, sigVars, bindVars,
                   traceVars, calls, metricVars, login>>

\* lines 110-111, <-errChan: main takes the value of the first blocked sender, and
\* that sender goes on after its send statement
MainRecv ==
    /\ Alive /\ mainPc = "recv"
    /\ sendq # <<>>
    /\ received' = Append(received, [task |-> Head(sendq).task, val |-> Head(sendq).val,
                                     seq |-> Head(sendq).seq, waiting |-> Len(sendq)])
    /\ sendq' = Tail(sendq)
    /\ pc' = [pc EXCEPT ![Head(sendq).task] = Head(sendq).next]
    /\ mainPc' = AfterRecv
    /\ UNCHANGED <<exitHow, svcVars, launched, bindCalls, offered, sigVars, bindVars,
                   traceVars, calls, metricVars, login>>

\* the value is logged at error level and main then waits forever
MainFatal_NoExit ==
    /\ Alive /\ mainPc = "fatal"
    /\ mainPc' = "blocked"
    /\ UNCHANGED <<exitHow, svcVars, taskVars, sigVars, chanVars, bindVars,
                   traceVars, calls, metricVars, login>>

\* the value is logged at error level and main returns: the deferred calls
\* run and the process ends
MainFatal_Return ==
    /\ Alive /\ mainPc = "fatal"
    /\ KillAll("fatal")
    /\ tracer' = RunDeferred(tracer, deferred)
    /\ deferred' = <<>>
    /\ UNCHANGED <<svcVars, launched, bindCalls, offered, sigVars, received, bindVars,
                   metricVars, login>>

\* line 111, logger.Fatal()...Msg(""): zerolog writes the record and calls
\* os.Exit(1); deferred calls do not run
MainFatal ==
    /\ Alive /\ mainPc = "fatal"
    /\ KillAll("fatal")
    /\ UNCHANGED <<svcVars, launched, bindCalls, offered, sigVars, received, bindVars,
                   traceVars, metricVars, login>>

\* ------------------------------------------------------ the signal watcher
\* lines 71-72: c := make(chan os.Signal, 1); signal.Notify(c, SIGINT, SIGTERM)
SigNotify ==
    /\ Alive /\ pc["signal"] = "notify"
    /\ sigRegistered' = TRUE
    /\ pc' = [pc EXCEPT !["signal"] = "waitSig"]
    /\ UNCHANGED <<lifeVars, svcVars, launched, bindCalls, offered, sigBuf,
                   chanVars, bindVars, traceVars, calls, metricVars, login>>

\* the watcher takes the signal from c and returns without sending it
SigForward_Drop ==
    /\ Alive /\ pc["signal"] = "waitSig"
    /\ sigBuf # <<>>
    /\ sigBuf' = Tail(sigBuf)
    /\ pc' = [pc EXCEPT !["signal"] = "done"]
    /\ UNCHANGED <<lifeVars, svcVars, launched, bindCalls, offered, sigRegistered,
                   chanVars, bindVars, traceVars, calls, metricVars, login>>

\* line 73: errChan <- fmt.Errorf("%s", <-c): the watcher takes one signal from
\* c and blocks sending its name on errChan
SigForward ==
    /\ Alive /\ pc["signal"] = "waitSig"
    /\ sigBuf # <<>>
    /\ sigBuf' = Tail(sigBuf)
    /\ Offer("signal", Head(sigBuf), "done")
    /\ UNCHANGED <<lifeVars, svcVars, launched, bindCalls, sigRegistered,
                   received, bindVars, traceVars, calls, metricVars, login>>

\* The operating system delivers SIGINT or SIGTERM. Before signal.Notify the
\* default disposition ends the process; after it the runtime puts the signal
\* in c when c has room and drops it otherwise (Notify never blocks).
Signal(s) ==
    /\ Alive
    /\ IF ~sigRegistered
       THEN /\ KillAll("signal")
            /\ UNCHANGED <<sigBuf>>
       ELSE /\ sigBuf' = IF Len(sigBuf) < SigChanCap THEN Append(sigBuf, s) ELSE sigBuf
            /\ UNCHANGED <<lifeVars, pc, calls, sendq>>
    /\ UNCHANGED <<svcVars, launched, bindCalls, offered, sigRegistered, received,
                   bindVars, traceVars, metricVars, login>>

\* ------------------------------------------------------------ the HTTP task
\* the router is also given a route for each endpoint
HTTPRouter_WithOps ==
    /\ Alive /\ pc["http"] = "router"
    /\ httpRoutes' = {[method |-> "GET", path |-> "/metrics", handler |-> "metrics"],
                      [method |-> "POST", path |-> "/hash", handler |-> "Hash"],
                      [method |-> "POST", path |-> "/validate", handler |-> "Validate"]}
    /\ pc' = [pc EXCEPT !["http"] = "listen"]
    /\ UNCHANGED <<lifeVars, svcVars, launched, bindCalls, offered, sigVars, chanVars,
                   rpcHandlers, httpLast, traceVars, calls, metricVars, login>>

\* lines 90-92: the router, with the one route of this server
HTTPRouter ==
    /\ Alive /\ pc["http"] = "router"
    /\ httpRoutes' = {[method |-> "GET", path |-> "/metrics", handler |-> "metrics"]}
    /\ pc' = [pc EXCEPT !["http"] = "listen"]
    /\ UNCHANGED <<lifeVars, svcVars, launched, bindCalls, offered, sigVars, chanVars,
                   rpcHandlers, httpLast, traceVars, calls, metricVars, login>>

\* line 93, http.ListenAndServe: the bind succeeds and the server serves
HTTPListenOk ==
    /\ Alive /\ pc["http"] = "listen"
    /\ bindCalls' = [bindCalls EXCEPT !["http"] = Append(@, "ok")]
    /\ pc' = [pc EXCEPT !["http"] = "serving"]
    /\ UNCHANGED <<lifeVars, svcVars, launched, offered, sigVars, chanVars, bindVars,
                   traceVars, calls, metricVars, login>>

\* line 93: the bind fails, ListenAndServe returns the error, the task sends it
HTTPListenFail ==
    /\ Alive /\ pc["http"] = "listen"
    /\ bindCalls' = [bindCalls EXCEPT !["http"] = Append(@, "failed")]
    /\ Offer("http", "http bind error", "done")
    /\ UNCHANGED <<lifeVars, svcVars, launched, sigVars, received, bindVars,
                   traceVars, calls, metricVars, login>>

\* line 93: the serve loop fails later, ListenAndServe returns, the task sends
HTTPServeReturn ==
    /\ Alive /\ pc["http"] = "serving"
    /\ Offer("http", "http serve error", "done")
    /\ UNCHANGED <<lifeVars, svcVars, launched, bindCalls, sigVars, received, bindVars,
                   traceVars, calls, metricVars, login>>

\* httprouter's answer to a request: the handler of the route registered for
\* the method and path, 405 for a path registered under another method, else 404
RouterStatus(method, path) ==
    IF \E r \in httpRoutes : r.method = method /\ r.path = path THEN StatusOK
    ELSE IF \E r \in httpRoutes : r.path = path THEN 405
    ELSE 404

\* the requests made to the HTTP listener: the scrape, and a capability operation
HTTPRequests == {<<"GET", "/metrics">>, <<"POST", "/hash">>}

\* The serving HTTP task answers one request.
HTTPRequest(method, path) ==
    /\ Alive /\ pc["http"] = "serving"
    /\ httpLast' = <<RouterStatus(method, path)>>
    /\ UNCHANGED <<lifeVars, svcVars, taskVars, sigVars, chanVars, httpRoutes,
                   rpcHandlers, traceVars, calls, metricVars, login>>

\* ------------------------------------------------------------ the gRPC task
\* line 97, net.Listen: the bind succeeds
RPCListenOk ==
    /\ Alive /\ pc["rpc"] = "listen"
    /\ bindCalls' = [bindCalls EXCEPT !["rpc"] = Append(@, "ok")]
    /\ pc' = [pc EXCEPT !["rpc"] = "register"]
    /\ UNCHANGED <<lifeVars, svcVars, launched, offered, sigVars, chanVars, bindVars,
                   traceVars, calls, metricVars, login>>

\* the return after the send is missing: the task goes on to register
RPCAfterListenError_NoReturn == "register"

\* lines 99-100: after the error is sent the task returns
RPCAfterListenError == "done"

\* lines 97-101: the bind fails and the task sends the error
RPCListenFail ==
    /\ Alive /\ pc["rpc"] = "listen"
    /\ bindCalls' = [bindCalls EXCEPT !["rpc"] = Append(@, "failed")]
    /\ Offer("rpc", "rpc bind error", RPCAfterListenError)
    /\ UNCHANGED <<lifeVars, svcVars, launched, sigVars, received, bindVars,
                   traceVars, calls, metricVars, login>>

\* lines 102-106: the handler made from endpoints is registered with the server
RPCRegister ==
    /\ Alive /\ pc["rpc"] = "register"
    /\ rpcHandlers' = {[op |-> o, chain |-> endpoints[o]] : o \in Ops}
    /\ pc' = [pc EXCEPT !["rpc"] = "serving"]
    /\ UNCHANGED <<lifeVars, svcVars, launched, bindCalls, offered, sigVars, chanVars,
                   httpRoutes, httpLast, traceVars, calls, metricVars, login>>

\* line 107: Serve returns (an accept error) and the task sends what it returned
RPCServeReturn ==
    /\ Alive /\ pc["rpc"] = "serving"
    /\ Offer("rpc", "rpc serve error", "done")
    /\ UNCHANGED <<lifeVars, svcVars, launched, bindCalls, sigVars, received, bindVars,
                   traceVars, calls, metricVars, login>>

\* ------------------------------------------- calls through the composed service
RECURSIVE EnterTrace(_)
\* the decorators of a chain, entered from the outermost in, down to the capability
EnterTrace(chain) ==
    IF chain = <<>> \/ Head(chain) = "Capability" THEN <<>>
    ELSE <<<<"enter", Head(chain)>>>> \o EnterTrace(Tail(chain))

\* A gRPC call for op arrives at the serving gRPC task: the handler registered
\* for op decodes it and calls the endpoint it was made from; each decorator
\* notes the time, defers its record and calls the layer it wraps, until the
\* call stands before the capability.
RPCBegin(c, op) ==
    /\ Alive /\ pc["rpc"] = "serving"
    /\ calls[c].st = "idle"
    /\ \A d \in CallIds : d < c => calls[d].st # "idle"
    /\ \E h \in rpcHandlers :
         /\ h.op = op
         /\ calls' = [calls EXCEPT ![c] = [NoCall EXCEPT !.st = "active", !.op = op,
                                                         !.chain = h.chain,
                                                         !.depth = Len(EnterTrace(h.chain)),
                                                         !.trace = EnterTrace(h.chain)]]
    /\ UNCHANGED <<lifeVars, svcVars, taskVars, sigVars, chanVars, bindVars,
                   traceVars, metricVars, login>>

\* The capability's method runs and returns its result or an error (to the
\* decorator that called it, or to the endpoint when nothing decorates it).
CallCapability(c, e) ==
    /\ Alive /\ calls[c].st = "active" /\ calls[c].dir = "in"
    /\ calls[c].depth < Len(calls[c].chain)
    /\ calls[c].chain[calls[c].depth + 1] = "Capability"
    /\ calls' = [calls EXCEPT ![c].dir = "out", ![c].err = e,
                              ![c].trace = Append(@, <<"run", "Capability">>),
                              ![c].st = IF calls[c].depth = 0 THEN "done" ELSE @]
    /\ UNCHANGED <<lifeVars, svcVars, taskVars, sigVars, chanVars, bindVars,
                   traceVars, metricVars, login>>

\* the call after the decorator at its depth has returned; leaving the
\* outermost one returns to the endpoint and the handler, which replies
Leave(call, layer) ==
    [call EXCEPT !.depth = @ - 1,
                 !.trace = Append(@, <<"exit", layer>>),
                 !.st = IF call.depth = 1 THEN "done" ELSE @]

\* The instrumenting decorator's deferred block: one Add(1) on the request
\* counter and one Observe on the latency summary, both labelled with the
\* method and with whether the call failed.
InstrumentingExit(c) ==
    /\ requestCount' = [requestCount EXCEPT ![<<calls[c].op, calls[c].err>>] = @ + 1]
    /\ requestLatency' = [requestLatency EXCEPT ![<<calls[c].op, calls[c].err>>] = @ + 1]
    /\ calls' = [calls EXCEPT ![c] = [Leave(calls[c], "Instrumenting") EXCEPT
                                         !.counted = @ + 1, !.observed = @ + 1]]
    /\ UNCHANGED logRecords

\* The logging decorator's deferred block: one log record with the method, the
\* time taken and the error.
LoggingExit(c) ==
    /\ logRecords' = logRecords + 1
    /\ calls' = [calls EXCEPT ![c] = Leave(calls[c], "Logging")]
    /\ UNCHANGED <<requestCount, requestLatency>>

\* The wrapped method has returned: the decorator's deferred block runs and the
\* decorator returns what it was returned.
CallExit(c) ==
    /\ Alive /\ calls[c].st = "active" /\ calls[c].dir = "out"
    /\ calls[c].depth >= 1
    /\ IF calls[c].chain[calls[c].depth] = "Instrumenting"
       THEN InstrumentingExit(c)
       ELSE LoggingExit(c)
    /\ UNCHANGED <<lifeVars, svcVars, taskVars, sigVars, chanVars, bindVars,
                   traceVars, login>>

\* ---------------------------------------------------------- the vault server
Next ==
    \/ MainConstruct
    \/ MainGoSignal
    \/ MainEndpoints
    \/ MainTracerOk
    \/ MainTracerPanic
    \/ MainGoHTTP
    \/ MainGoRPC
    \/ MainRecv
    \/ MainFatal
    \/ SigNotify
    \/ SigForward
    \/ \E s \in Signals : Signal(s)
    \/ HTTPRouter
    \/ HTTPListenOk
    \/ HTTPListenFail
    \/ HTTPServeReturn
    \/ \E r \in HTTPRequests : HTTPRequest(r[1], r[2])
    \/ RPCListenOk
    \/ RPCListenFail
    \/ RPCRegister
    \/ RPCServeReturn
    \/ \E c \in 1..MaxLifeCalls, o \in Ops : RPCBegin(c, o)
    \/ \E c \in CallIds, e \in BOOLEAN : CallCapability(c, e)
    \/ \E c \in CallIds : CallExit(c)

Spec == Init /\ [][Next]_vars

\* main is scheduled: it never blocks before its receive, and the receive
\* completes once a sender is blocked on errChan
Fairness ==
    /\ WF_vars(MainConstruct \/ MainGoSignal \/ MainEndpoints \/ MainTracerOk
               \/ MainTracerPanic \/ MainGoHTTP \/ MainGoRPC \/ MainRecv \/ MainFatal)

FairSpec == Spec /\ Fairness

\* the signal watcher is a goroutine that can run, so the scheduler runs it: it
\* registers, and it takes a signal that is waiting in c
SignalFairness == WF_vars(SigNotify \/ SigForward)

FairSignalSpec == Spec /\ Fairness /\ SignalFairness

\* The executions of the vault server in which both listeners bind and no
\* signal arrives: calls are served concurrently until Serve returns and main
\* ends the process.
NextServe ==
    \/ MainConstruct
    \/ MainGoSignal
    \/ MainEndpoints
    \/ MainTracerOk
    \/ MainGoHTTP
    \/ MainGoRPC
    \/ MainRecv
    \/ MainFatal
    \/ SigNotify
    \/ HTTPRouter
    \/ HTTPListenOk
    \/ RPCListenOk
    \/ RPCRegister
    \/ RPCServeReturn
    \/ \E c \in CallIds, o \in Ops : RPCBegin(c, o)
    \/ \E c \in CallIds, e \in BOOLEAN : CallCapability(c, e)
    \/ \E c \in CallIds : CallExit(c)

SpecServe == Init /\ [][NextServe]_vars

\* ------------------------------------------------------------ the api gateway
\* JSON values on the wire
JStr(str) == <<"string", str>>
JNum(n) == <<"number", n>>
JObj(members) == <<"object", members>>

\* the request bodies sent to POST /v1/login: text that is no JSON, an empty
\* body, and two well-formed login requests
Bodies == { <<"text", "not json">>, <<"text", "">>,
            <<"json", "a", "p">>, <<"json", "b", "q">> }

\* decodeLoginRequest: the JSON body decoded into a loginRequest, or the
\* decoder's error
decodeLoginRequest(body) ==
    IF body[1] = "json"
    THEN [req |-> <<"loginRequest", body[2], body[3]>>, err |-> <<>>]
    ELSE IF body[2] = ""
    THEN [req |-> <<>>, err |-> <<"errorString", "EOF">>]
    ELSE [req |-> <<>>, err |-> <<"SyntaxError", "invalid character">>]

\* the errors the login endpoint returns: one made by errors.New, and one of a
\* struct type with exported fields
EndpointErrors == { <<"errorString", "invalid credentials">>,
                    <<"statusError", "service unavailable">> }

\* e.LoginEndpoint(ctx, req): what the endpoint may return for a request
LoginEndpoint(req) ==
    { [resp |-> <<"loginResponse", <<"token", IF req = <<>> THEN "" ELSE req[2]>>>>,
       err |-> <<>>] }
    \cup { [resp |-> <<>>, err |-> e] : e \in EndpointErrors }

\* net/http.StatusText
StatusText(code) ==
    CASE code = 200 -> "OK"
      [] code = 400 -> "Bad Request"
      [] code = 500 -> "Internal Server Error"
      [] OTHER -> ""

\* encoding/json on a value of type error: the dynamic type's exported fields.
\* An *errors.errorString has none and is written as {}, a *json.SyntaxError
\* has Offset, a status error has Code and Message; the text err.Error() returns
\* is written for none of them.
JSONOfError(err) ==
    CASE err[1] = "errorString" -> JObj(<<>>)
      [] err[1] = "SyntaxError" -> JObj(<< <<"Offset", JNum(1)>> >>)
      [] OTHER -> JObj(<< <<"code", JNum(14)>>, <<"message", JStr(err[2])>> >>)

\* encoding/json on a loginResponse
JSONOfResponse(resp) == JObj(<< <<"token", JStr(resp[2])>> >>)

\* http.ResponseWriter.WriteHeader: the first status written stands
WriteHeader(w, code) == IF w.status = 0 THEN [w EXCEPT !.status = code] ELSE w

\* http.ResponseWriter.Write: writes the header with 200 if none was written
Write(w, data) ==
    [w EXCEPT !.status = IF @ = 0 THEN StatusOK ELSE @, !.body = Append(@, data)]

\* lines 32-40
respondError(w, code, err) ==
    Write(WriteHeader([w EXCEPT !.contentType = "application/json; charset=utf-8"], code),
          JObj(<< <<"error", JSONOfError(err)>>,
                  <<"status_code", JNum(code)>>,
                  <<"status_text", JStr(StatusText(code))>> >>))

\* the header is written with the error status before the body
respondSuccess_WithErrorCode(w, data) ==
    Write(WriteHeader([w EXCEPT !.contentType = "application/json; charset=utf-8"], ErrorCode),
          JSONOfResponse(data))

\* lines 43-46
respondSuccess(w, data) ==
    Write([w EXCEPT !.contentType = "application/json; charset=utf-8"],
          JSONOfResponse(data))

\* A POST /v1/login request arrives and the router calls HandleLoginPost.
LoginArrive(i, body) ==
    /\ login[i].pc = "idle"
    /\ \A j \in LoginIds : j < i => login[j].pc # "idle"
    /\ login' = [login EXCEPT ![i].pc = "decode", ![i].body = body]
    /\ UNCHANGED mainVars

\* the return after respondError is missing: the handler goes on to the endpoint
AfterDecodeError_NoReturn == "call"

\* line 21: the handler returns
AfterDecodeError == "done"

\* the decoded request is kept in a variable that all invocations share
LoginDecode_Shared(i) ==
    /\ login[i].pc = "decode"
    /\ LET d == decodeLoginRequest(login[i].body) IN
       IF d.err # <<>>
       THEN login' = [login EXCEPT ![i].err = d.err,
                                   ![i].w = respondError(@, ErrorCode, d.err),
                                   ![i].responses = Append(@, "decodeError"),
                                   ![i].pc = AfterDecodeError]
       ELSE login' = [j \in LoginIds |->
                        IF j = i THEN [login[j] EXCEPT !.req = d.req, !.pc = "call"]
                        ELSE [login[j] EXCEPT !.req = d.req]]
    /\ UNCHANGED mainVars

\* lines 18-22: the body is decoded; on an error the handler responds and returns
LoginDecode(i) ==
    /\ login[i].pc = "decode"
    /\ LET d == decodeLoginRequest(login[i].body) IN
       IF d.err # <<>>
       THEN login' = [login EXCEPT ![i].err = d.err,
                                   ![i].w = respondError(@, ErrorCode, d.err),
                                   ![i].responses = Append(@, "decodeError"),
                                   ![i].pc = AfterDecodeError]
       ELSE login' = [login EXCEPT ![i].req = d.req, ![i].pc = "call"]
    /\ UNCHANGED mainVars

\* the return after the second respondError is missing: the handler goes on
\* to respondSuccess
LoginCall_NoReturn(i) ==
    /\ login[i].pc = "call"
    /\ \E out \in LoginEndpoint(login[i].req) :
         IF out.err # <<>>
         THEN login' = [login EXCEPT ![i].epCalls = @ + 1,
                                     ![i].err = out.err,
                                     ![i].w = respondError(@, ErrorCode, out.err),
                                     ![i].responses = Append(@, "endpointError"),
                                     ![i].pc = "respond"]
         ELSE login' = [login EXCEPT ![i].epCalls = @ + 1,
                                     ![i].resp = out.resp,
                                     ![i].pc = "respond"]
    /\ UNCHANGED mainVars

\* lines 23-27: the endpoint is called; on an error the handler responds and returns
LoginCall(i) ==
    /\ login[i].pc = "call"
    /\ \E out \in LoginEndpoint(login[i].req) :
         IF out.err # <<>>
         THEN login' = [login EXCEPT ![i].epCalls = @ + 1,
                                     ![i].err = out.err,
                                     ![i].w = respondError(@, ErrorCode, out.err),
                                     ![i].responses = Append(@, "endpointError"),
                                     ![i].pc = "done"]
         ELSE login' = [login EXCEPT ![i].epCalls = @ + 1,
                                     ![i].resp = out.resp,
                                     ![i].pc = "respond"]
    /\ UNCHANGED mainVars

\* line 28
LoginRespond(i) ==
    /\ login[i].pc = "respond"
    /\ login' = [login EXCEPT ![i].w = respondSuccess(@, login[i].resp),
                              ![i].responses = Append(@, "success"),
                              ![i].pc = "done"]
    /\ UNCHANGED mainVars

NextLogin ==
    \/ \E i \in LoginIds, b \in Bodies : LoginArrive(i, b)
    \/ \E i \in LoginIds : LoginDecode(i)
    \/ \E i \in LoginIds : LoginCall(i)
    \/ \E i \in LoginIds : LoginRespond(i)

SpecLogin == Init /\ [][NextLogin]_vars

\* ===================================================================== claims
\* no goroutine of the process is running, and no call is being served
NothingRuns ==
    /\ \A t \in Tasks : pc[t] \in {"unlaunched", "done", "killed"}
    /\ \A c \in CallIds : calls[c].st # "active"

\* C1: once a task has offered its value on errChan (the HTTP listener's or the
\* gRPC listener's error, or the name of a signal), the process eventually is
\* terminated, and in a terminated process no listener serves and no call is
\* being served.
C1_TerminatesOnFirstEvent ==
    /\ (\E t \in Tasks : offered[t] > 0) ~> Terminated
    /\ [](Terminated => NothingRuns)

\* the gRPC task's value ended the process while the HTTP listener had answered
\* a request and a call was being served
C1_Witness ==
    /\ Terminated /\ exitHow = "fatal"
    /\ Len(received) = 1 /\ received[1].task = "rpc"
    /\ pc["http"] = "killed" /\ httpLast # <<>> /\ offered["http"] = 0
    /\ \E c \in CallIds : calls[c].st = "aborted"

\* C2: main receives from errChan at most once; a task whose value was offered
\* and is not the one received stays blocked in its send until the process
\* ends.
C2_SingleReceive ==
    /\ Len(received) <= 1
    /\ \A t \in Tasks :
         (offered[t] > 0 /\ \A k \in 1..Len(received) : received[k].task # t)
            => pc[t] \in {"send", "killed"}

\* main has received one value and another task is blocked in its send
C2_Witness ==
    /\ mainPc = "fatal" /\ Len(received) = 1
    /\ \E t \in Tasks : pc[t] = "send" /\ received[1].task # t

\* the invocations of HandleLoginPost whose body decodeLoginRequest rejects
DecodeFails(i) == login[i].body # <<>> /\ decodeLoginRequest(login[i].body).err # <<>>

\* the canonical error envelope with the error's message in it
Envelope(msg, code, text) ==
    JObj(<< <<"error", JStr(msg)>>, <<"status_code", JNum(code)>>,
            <<"status_text", JStr(text)>> >>)

\* the keys of a JSON object
Keys(obj) == [k \in 1..Len(obj[2]) |-> obj[2][k][1]]

\* C3: an invocation of HandleLoginPost whose decode fails writes one error
\* response and returns; the endpoint is not called for it.
C3_DecodeErrorSkipsEndpoint ==
    \A i \in LoginIds :
        (DecodeFails(i) /\ login[i].pc # "decode")
           => /\ login[i].pc = "done"
              /\ login[i].epCalls = 0
              /\ login[i].responses = <<"decodeError">>
              /\ Len(login[i].w.body) = 1
              /\ Keys(login[i].w.body[1]) = <<"error", "status_code", "status_text">>

\* a request with a body that is no JSON has been answered
C3_Witness ==
    \E i \in LoginIds :
        /\ login[i].pc = "done" /\ login[i].body = <<"text", "not json">>
        /\ login[i].responses = <<"decodeError">>

\* C4: the status written for a decode failure is in the 4xx class, and it is
\* not the status written for a failure of the endpoint.
C4_DecodeErrorIsClientClass ==
    \A i \in LoginIds :
        login[i].responses = <<"decodeError">>
           => /\ login[i].w.status \in 400..499
              /\ \A j \in LoginIds :
                    login[j].responses = <<"endpointError">>
                       => login[j].w.status # login[i].w.status

\* C5: for an error returned by LoginEndpoint the response has status 500 and
\* its body is the envelope {error, status_code, status_text} with the error's
\* message, the status written and that status's text.
C5_EndpointErrorEnvelope ==
    \A i \in LoginIds :
        login[i].responses = <<"endpointError">>
           => /\ login[i].w.status = 500
              /\ login[i].w.body =
                    << Envelope(login[i].err[2], login[i].w.status, "Internal Server Error") >>

\* C6: when the decode succeeds and LoginEndpoint returns no error, the response
\* has a 200-class status and its body is the JSON of the endpoint's response
\* for the decoded request, and nothing else.
C6_SuccessResponse ==
    \A i \in LoginIds :
        (login[i].pc = "done" /\ ~DecodeFails(i) /\ login[i].err = <<>>)
           => /\ login[i].w.status \in 200..299
              /\ \E out \in LoginEndpoint(decodeLoginRequest(login[i].body).req) :
                    /\ out.err = <<>>
                    /\ login[i].w.body = << JSONOfResponse(out.resp) >>
              /\ login[i].responses = <<"success">>

\* a well-formed login request has been answered with the endpoint's response
C6_Witness ==
    \E i \in LoginIds :
        /\ login[i].pc = "done" /\ login[i].body = <<"json", "a", "p">>
        /\ login[i].epCalls = 1 /\ login[i].err = <<>>
        /\ login[i].w.body # <<>>

\* the operations a caller can invoke through each listener
InvocableByRPC == IF pc["rpc"] = "serving" THEN {h.op : h \in rpcHandlers} ELSE {}
InvocableByHTTP ==
    IF pc["http"] = "serving" THEN {r.handler : r \in httpRoutes} \cap Ops ELSE {}

C8_BindFailureIsFinal ==
    /\ \A t \in Tasks : launched[t] <= 1 /\ offered[t] <= 1
    /\ \A l \in {"http", "rpc"} :
         /\ Len(bindCalls[l]) <= 1
         /\ bindCalls[l] = <<"failed">>
               => offered[l] = 1 /\ pc[l] \in {"send", "done", "killed"}
    /\ bindCalls["rpc"] = <<"failed">> => rpcHandlers = {}

\* the gRPC bind failed, main received the error and the gRPC task has returned
C8_Witness ==
    /\ bindCalls["rpc"] = <<"failed">>
    /\ mainPc = "fatal" /\ received[1].task = "rpc"
    /\ pc["rpc"] = "done"

\* what a call through the composed service does, in order
FullTrace ==
    << <<"enter", "Instrumenting">>, <<"enter", "Logging">>, <<"run", "Capability">>,
       <<"exit", "Logging">>, <<"exit", "Instrumenting">> >>

\* C9: every call made through an endpoint enters the instrumenting decorator,
\* then the logging decorator, then the capability, and leaves them in the
\* reverse order; the capability is never reached without both.
C9_DecoratorOrder ==
    \A c \in CallIds :
        calls[c].st # "idle"
           => /\ Len(calls[c].trace) \in 2..Len(FullTrace)
              /\ calls[c].trace = SubSeq(FullTrace, 1, Len(calls[c].trace))
              /\ calls[c].st = "done" => calls[c].trace = FullTrace

\* a call has gone through the whole stack and was answered
C9_Witness ==
    \E c \in CallIds : calls[c].st = "done" /\ Len(calls[c].trace) = 5 /\ logRecords > 0

\* the calls that have returned from the instrumenting decorator, per method
Counted(m) == {c \in CallIds : calls[c].op = m /\ calls[c].st = "done"}

\* C10: a completed call was counted once and observed once, whether it
\* failed or not; a call that has not returned was not counted; per method the
\* request counters, and the latency observations, add up to the number of
\* completed calls.
C10_CountedOnce ==
    /\ \A c \in CallIds :
         /\ calls[c].st = "done" => calls[c].counted = 1 /\ calls[c].observed = 1
         /\ calls[c].st = "done"
               => requestCount[<<calls[c].op, calls[c].err>>] >= 1
         /\ calls[c].st \in {"idle", "active"}
               => calls[c].counted = 0 /\ calls[c].observed = 0
    /\ \A m \in Ops :
         /\ requestCount[<<m, TRUE>>] + requestCount[<<m, FALSE>>] = Cardinality(Counted(m))
         /\ requestLatency[<<m, TRUE>>] + requestLatency[<<m, FALSE>>] = Cardinality(Counted(m))

\* two overlapping calls of one method: the second, which failed, has
\* completed while the first, which succeeded, is about to be counted
C10_Witness ==
    /\ calls[1].st = "active" /\ calls[1].dir = "out" /\ calls[1].depth = 1
    /\ calls[1].op = "Hash" /\ ~calls[1].err
    /\ calls[2].st = "done" /\ calls[2].op = "Hash" /\ calls[2].err
    /\ requestCount[<<"Hash", TRUE>>] = 1 /\ requestCount[<<"Hash", FALSE>>] = 0

\* the tasks whose send on errChan has completed
Delivered == {received[k].task : k \in 1..Len(received)}

\* C11 as stated: when the process has ended through errChan, every task that
\* completed or failed has had its write on errChan completed.
C11_EveryWriteCompletes ==
    (Terminated /\ exitHow = "fatal") => \A t \in Tasks : offered[t] > 0 => t \in Delivered

\* C11 as amended: a task that completes or fails starts exactly one send on
\* errChan and never a second; at most one of these sends ever completes, the
\* one main receives, and only that task goes on past its send; every other
\* sender stays blocked in its send until the process ends.
C11_OneSendPerTask ==
    /\ \A t \in Tasks :
         /\ offered[t] <= 1
         /\ pc[t] \in {"send", "done"} => offered[t] = 1
         /\ pc[t] = "done" <=> t \in Delivered
         /\ pc[t] = "send" <=> (Alive /\ \E k \in 1..Len(sendq) : sendq[k].task = t)
    /\ Cardinality(Delivered) <= 1
    /\ Cardinality({t \in Tasks : offered[t] > 0}) = Cardinality(Delivered) + Len(sendq)
          \/ ~Alive

\* the process ended through errChan while two tasks had failed: one send was
\* completed, the other was cut off
C11_Witness ==
    /\ Terminated /\ exitHow = "fatal"
    /\ offered["http"] = 1 /\ offered["rpc"] = 1
    /\ Delivered = {"http"} /\ pc["rpc"] = "killed"

\* C12: first-write-wins. The value main receives from errChan, which is the
\* value it logs at fatal severity, is the value of the task that was first to
\* start its send on errChan, however many tasks were blocked in their sends
\* when main reached its receive; the tasks that came later are still blocked.
C12_FirstWriteWins ==
    /\ \A k \in 1..Len(received) :
         /\ received[k].seq = 1
         /\ \A j \in 1..Len(sendq) : sendq[j].seq > received[k].seq
    /\ \A j \in 1..Len(sendq) : received = <<>> => sendq[j].seq = j
    /\ mainPc = "fatal" => Len(received) = 1

\* two tasks were blocked in their sends when main reached its receive, and
\* main received the value of the one that came first
C12_Witness ==
    /\ mainPc = "fatal"
    /\ Len(received) = 1 /\ received[1].waiting >= 2 /\ received[1].seq = 1
    /\ received[1].task = "signal"
    /\ \E j \in 1..Len(sendq) : sendq[j].seq = 2

\* the Starting work: the service constructed and wrapped, the endpoints built
\* from it, the tracer initialised
StartingDone ==
    /\ svc # <<>> /\ svc = ComposeService
    /\ endpoints = MakeEndpoints
    /\ tracer.init

\* the lifecycle state of the process
LifeState ==
    CASE mainPc = "exited" -> "Terminated"
      [] mainPc = "fatal" -> "ShuttingDown"
      [] mainPc \in {"goHTTP", "goRPC", "recv"} /\ StartingDone -> "Running"
      [] OTHER -> "Starting"

LifeRank ==
    CASE LifeState = "Starting" -> 1
      [] LifeState = "Running" -> 2
      [] LifeState = "ShuttingDown" -> 3
      [] LifeState = "Terminated" -> 4

\* C13 as stated: none of the three tasks, the signal watcher included, is
\* started before the Starting work is complete.
C13_TasksOnlyInRunning ==
    \A t \in Tasks : launched[t] > 0 => StartingDone

\* C13 as amended: the lifecycle only advances; each task is started once; the
\* two listeners are started in Running, after the Starting work is complete;
\* the signal watcher is started during Starting, when the service has been
\* constructed and wrapped and before the endpoints are built and the tracer
\* is initialised.
C13_ForwardAndLaunchOrder ==
    [][ /\ LifeRank' >= LifeRank
        /\ \A t \in Tasks : launched'[t] # launched[t] =>
             /\ launched[t] = 0 /\ launched'[t] = 1
             /\ IF t = "signal"
                THEN /\ LifeState = "Starting"
                     /\ svc = ComposeService
                     /\ endpoints # MakeEndpoints /\ ~tracer.init
                ELSE LifeState = "Running" /\ StartingDone
      ]_vars

\* Running with the three tasks started
C13_Witness ==
    /\ LifeState = "Running" /\ mainPc = "recv"
    /\ \A t \in Tasks : launched[t] = 1

\* a signal delivered after signal.Notify is in c, or the watcher has taken it
\* and is blocked sending it on errChan
SignalHeld ==
    /\ Alive /\ sigRegistered
    /\ sigBuf # <<>> \/ pc["signal"] = "send"

MainStep ==
    \/ MainConstruct \/ MainGoSignal \/ MainEndpoints \/ MainTracerOk
    \/ MainTracerPanic \/ MainGoHTTP \/ MainGoRPC \/ MainRecv \/ MainFatal

\* C15: main blocks in one place only, its receive on errChan. Everywhere else
\* it can take its next step. At the receive with no sender waiting it cannot
\* move, so the process stays in Running and does not end on its own (only a
\* signal that arrives before signal.Notify can end it from outside).
\* ShuttingDown is entered only by that receive, which takes exactly one
\* value, and what follows it is the exit: the calls in flight are cut off,
\* not waited for.
C15_BlockedOnlyAtReceive ==
    /\ [](Alive /\ mainPc # "recv" => ENABLED MainStep)
    /\ [](Alive /\ mainPc = "recv" /\ sendq = <<>> => ~ENABLED MainStep)
    /\ [][ /\ (mainPc = "recv" /\ mainPc' # "recv") =>
                \/ /\ mainPc' = "fatal" /\ sendq # <<>>
                   /\ Len(received') = Len(received) + 1
                \/ mainPc' = "exited" /\ exitHow' = "signal"
           /\ (mainPc' = "fatal" /\ mainPc # "fatal") => mainPc = "recv"
           /\ (mainPc = "fatal" /\ mainPc' # "fatal") =>
                /\ mainPc' = "exited" /\ exitHow' \in {"fatal", "signal"}
                /\ \A c \in CallIds : calls[c].st = "active" => calls'[c].st = "aborted"
           /\ (exitHow = "none" /\ exitHow' = "fatal") => mainPc = "fatal"
      ]_vars

\* main was blocked at its receive with no sender, the signal watcher then
\* offered a value, main received it and the process exited with a call in
\* flight cut off
C15_Witness ==
    /\ Terminated /\ exitHow = "fatal"
    /\ Len(received) = 1 /\ received[1].task = "signal" /\ received[1].waiting = 1
    /\ pc["http"] = "killed" /\ pc["rpc"] = "killed"
    /\ \E c \in CallIds : calls[c].st = "aborted"

\* C16: when the process ends through the receive on errChan it exits from
\* inside the fatal log call, so the cleanup main deferred is still pending
\* and never ran: the tracer's closer has not been closed and the "server"
\* span has not been finished.
C16_DeferredNeverRun ==
    exitHow = "fatal" =>
        /\ Len(received) = 1
        /\ tracer.init /\ tracer.spanStarted
        /\ ~tracer.closed /\ ~tracer.spanFinished
        /\ deferred = <<"span.Finish", "closer.Close">>

\* the process has ended through errChan with both deferred calls pending
C16_Witness ==
    /\ Terminated /\ exitHow = "fatal"
    /\ received # <<>> /\ received[1].task = "http"
    /\ deferred # <<>> /\ tracer.spanStarted /\ ~tracer.spanFinished /\ ~tracer.closed

\* a step of invocation i of HandleLoginPost
LoginStep(i) == LoginDecode(i) \/ LoginCall(i) \/ LoginRespond(i)

\* C17: every invocation of HandleLoginPost runs to its end and has then
\* written exactly one response: the error response for a decode failure, the
\* error response for an endpoint failure, or the success response; before its
\* end it has written none, it never writes two, and it calls the endpoint at
\* most once (not at all when the decode fails).
C17_ExactlyOneResponse ==
    \A i \in LoginIds :
        /\ Len(login[i].responses) <= 1 /\ login[i].epCalls <= 1
        /\ Len(login[i].w.body) = Len(login[i].responses)
        /\ login[i].pc = "done" <=> Len(login[i].responses) = 1
        /\ login[i].pc \in {"decode", "call", "respond"} => ENABLED LoginStep(i)
        /\ login[i].pc = "done" =>
             \/ /\ login[i].responses = <<"decodeError">>
                /\ DecodeFails(i) /\ login[i].epCalls = 0
             \/ /\ login[i].responses = <<"endpointError">>
                /\ ~DecodeFails(i) /\ login[i].epCalls = 1 /\ login[i].err # <<>>
             \/ /\ login[i].responses = <<"success">>
                /\ ~DecodeFails(i) /\ login[i].epCalls = 1 /\ login[i].err = <<>>

\* two invocations have ended, one with the endpoint's error and one otherwise,
\* each with one response
C17_Witness ==
    /\ \E i \in LoginIds : login[i].pc = "done" /\ login[i].responses = <<"endpointError">>
    /\ \E i \in LoginIds : login[i].pc = "done" /\ login[i].responses # <<"endpointError">>

\* the response writers an invocation with this body can end with when it is
\* served from its own request alone
OwnResponses(body) ==
    LET d == decodeLoginRequest(body) IN
    IF d.err # <<>>
    THEN {respondError(NewResponseWriter, ErrorCode, d.err)}
    ELSE {IF out.err # <<>> THEN respondError(NewResponseWriter, ErrorCode, out.err)
                            ELSE respondSuccess(NewResponseWriter, out.resp)
            : out \in LoginEndpoint(d.req)}

\* C18: however concurrent invocations of HandleLoginPost interleave, each
\* works on the request decoded from its own body and answers with the
\* endpoint's result or error for that request; nothing of another
\* invocation's request or response appears in its own.
C18_OwnRequestOwnResponse ==
    \A i \in LoginIds :
        /\ login[i].pc \in {"call", "respond"} =>
              login[i].req = decodeLoginRequest(login[i].body).req
        /\ login[i].pc = "respond" =>
              \E out \in LoginEndpoint(decodeLoginRequest(login[i].body).req) :
                  out.err = <<>> /\ login[i].resp = out.resp
        /\ login[i].pc = "done" => login[i].w \in OwnResponses(login[i].body)
        /\ login[i].pc \in {"idle", "decode", "call", "respond"} =>
              login[i].w = NewResponseWriter

\* two invocations with different bodies overlapped: the second was answered
\* with the response for its own user while the first was between its decode
\* and its endpoint call
C18_Witness ==
    /\ login[1].pc = "call" /\ login[1].body = <<"json", "a", "p">>
    /\ login[2].pc = "done" /\ login[2].body = <<"json", "b", "q">>
    /\ login[2].responses = <<"success">>
    /\ login[2].w.body = << JSONOfResponse(<<"loginResponse", <<"token", "b">>>>) >>

====
